---- MODULE Spec2Model ----
(***************************************************************************)
(* Model of cudaArray/cudaSurface3D.h: CudaSurface3DBase<Derived> and its  *)
(* two leaf types CudaSurface2DArray<T> and CudaSurface3D<T>.              *)
(*                                                                         *)
(* An instance is a value object (extents, block shape, stream, boundary   *)
(* mode) holding a CudaSharedSurfaceObject, a reference-counted handle to  *)
(* one device allocation.  The handle type and the CudaArray3DBase base    *)
(* class live in headers that are not part of the modelled file; they are  *)
(* modelled from the specification (shared ownership, release at count 0,  *)
(* plain value fields).  The CUDA runtime calls and surface intrinsics are *)
(* modelled by their documented behaviour.                                 *)
(***************************************************************************)
EXTENDS Integers, Sequences, FiniteSets, TLC

\* ---------------------------------------------------------------- bounds
NInst == 2          \* instance slots (C++ objects alive at one time)
MaxAlloc == 2       \* device allocations ever made in one behaviour
MaxCells == 2       \* largest width*height*depth passed to the constructor
MaxVal == 1         \* element values are 0..MaxVal
NThreads == 2       \* device threads of the modelled kernel launch

\* ------------------------------------------------------ program constants
SizeofT == 4                     \* sizeof(T) for T = float
XWrap == 1073741824              \* 2^32 / SizeofT: int x, size_t product
cudaBoundaryModeZero == 0
cudaBoundaryModeClamp == 1
cudaBoundaryModeTrap == 2

BoundaryModes ==
  {cudaBoundaryModeZero, cudaBoundaryModeClamp, cudaBoundaryModeTrap}
Values == 0..MaxVal
Uninit == -1                     \* content of device memory never written
\* <<width, height, depth, block_dim.x, stream>> used by the callers of the
\* constructor: each extent is the long one once, both block sizes and
\* streams occur.
CtorArgs == {<<2, 1, 1, 1, 0>>, <<1, 2, 1, 2, 1>>, <<1, 1, 2, 1, 1>>}
Inst == 1..NInst
Handles == 1..MaxAlloc
NoHandle == 0

VARIABLES
  derived,  \* the leaf type the template is instantiated with
  inst,     \* inst[i]: the C++ object in slot i (live flag + its fields)
  alloc,    \* alloc[h]: the device allocation behind handle h
  host,     \* the caller's host buffer (a sequence of elements)
  err,      \* TRUE once a kernel has trapped
  thr,      \* the device threads of the running kernel
  snap,     \* element values at kernel launch
  origin,   \* history: origin[i] names the logical array slot i is a copy of
  op        \* history: the last operation performed

vars == <<derived, inst, alloc, host, err, thr, snap, origin, op>>

\* ------------------------------------------------------------ data model
Cells(w, h, d) == (0..(w - 1)) \X (0..(h - 1)) \X (0..(d - 1))

Shapes ==
  {s \in (1..MaxCells) \X (1..MaxCells) \X (1..MaxCells) :
     s[1] * s[2] * s[3] <= MaxCells}

NoAlloc ==
  [state |-> "none", refs |-> 0, frees |-> 0, w |-> 0, h |-> 0, d |-> 0,
   layered |-> FALSE, data |-> <<>>]

DeadInst ==
  [live |-> FALSE, width |-> 0, height |-> 0, depth |-> 0,
   block_dim |-> 0, stream |-> 0, boundary_mode |-> 0, surface |-> NoHandle]

NoCoord == <<0, 0, 0>>
NoOp == [name |-> "init", i |-> 0, c |-> NoCoord, v |-> 0]

\* History record: the operation's name and, for element accesses, the
\* coordinate it was called with and the value written or returned.
OpRec(name, c, v) == [name |-> name, i |-> 0, c |-> c, v |-> v]

\* History record of a host transfer on instance i; src is, for a host
\* assignment that directly follows a copyTo, the instance that copyTo was
\* called on (0 otherwise).
HostOp(name, i, src) == [name |-> name, i |-> i, c |-> NoCoord, v |-> src]

Live(i) == inst[i].live

\* CudaArrayTraits<Derived>::IS_LAYERED
IS_LAYERED == derived = "CudaSurface2DArray"

\* ------------------------------------------- CudaSharedSurfaceObject<T>
\* A handle that has never been handed out.
HasFresh == \E h \in Handles : alloc[h].state = "none"
FreshHandle ==
  CHOOSE h \in Handles :
    /\ alloc[h].state = "none"
    /\ \A g \in Handles : g < h => alloc[g].state # "none"

\* CudaSharedSurfaceObject(width, height, depth, is_layered): a new device
\* array with one owner; its elements are not initialised.
NewAlloc(w, h, d, lay) ==
  [state |-> "live", refs |-> 1, frees |-> 0, w |-> w, h |-> h, d |-> d,
   layered |-> lay, data |-> [c \in Cells(w, h, d) |-> Uninit]]

SurfaceAlloc(al, hd, w, h, d, lay) == [al EXCEPT ![hd] = NewAlloc(w, h, d, lay)]

\* Copying the handle adds an owner.
SurfaceRetain(al, hd) == [al EXCEPT ![hd].refs = @ + 1]

\* Dropping the handle removes an owner; the last owner frees the array.
SurfaceRelease(al, hd) ==
  IF al[hd].refs = 1
    THEN [al EXCEPT ![hd] = [NoAlloc EXCEPT !.state = "freed",
                                            !.frees = al[hd].frees + 1]]
    ELSE [al EXCEPT ![hd].refs = @ - 1]

\* surface = other.surface: the new owner is added before the old is dropped.
SurfaceAssign(al, old, new) == SurfaceRelease(SurfaceRetain(al, new), old)

\* ------------------------------------------------- CudaArray3DBase fields
\* Base(width, height, depth, block_dim, stream) plus the members of
\* CudaSurface3DBase, as one record.
NewInst(w, h, d, bd, st, bm, hd) ==
  [live |-> TRUE, width |-> w, height |-> h, depth |-> d,
   block_dim |-> bd, stream |-> st, boundary_mode |-> bm, surface |-> hd]

\* A new C++ object takes the lowest slot that holds no object (slots only
\* name objects, so nothing is lost by fixing the choice).
NewSlot(i) == ~Live(i) /\ \A j \in Inst : j < i => Live(j)

\* History: the smallest logical-array name no live instance carries.
FreshOrigin ==
  CHOOSE n \in 1..(NInst + 1) :
    /\ \A i \in Inst : origin[i] # n
    /\ \A m \in 1..(NInst + 1) : m < n => \E i \in Inst : origin[i] = m

\* ------------------------------------------------------------ operations
\* Mutant of Construct: the surface is allocated with the height passed
\* again in place of the depth.
Construct_HeightForDepth(i, w, h, d, bd, st, bm) ==
  /\ ~err
  /\ NewSlot(i)
  /\ HasFresh
  /\ inst' = [inst EXCEPT ![i] = NewInst(w, h, d, bd, st, bm, FreshHandle)]
  /\ alloc' = SurfaceAlloc(alloc, FreshHandle, w, h, h, IS_LAYERED)
  /\ origin' = [origin EXCEPT ![i] = FreshOrigin]
  /\ op' = OpRec("construct", NoCoord, 0)
  /\ UNCHANGED <<derived, host, err, thr, snap>>

\* CudaSurface3DBase(width, height, depth, block_dim, stream, boundary_mode)
Construct(i, w, h, d, bd, st, bm) ==
  /\ ~err
  /\ NewSlot(i)
  /\ HasFresh
  /\ inst' = [inst EXCEPT ![i] = NewInst(w, h, d, bd, st, bm, FreshHandle)]
  /\ alloc' = SurfaceAlloc(alloc, FreshHandle, w, h, d, IS_LAYERED)
  /\ origin' = [origin EXCEPT ![i] = FreshOrigin]
  /\ op' = OpRec("construct", NoCoord, 0)
  /\ UNCHANGED <<derived, host, err, thr, snap>>

\* The same constructor when the device allocation fails: the error leaves
\* the constructor, no object comes to exist.
ConstructFail(i, w, h, d, bd, st, bm) ==
  /\ ~err
  /\ NewSlot(i)
  /\ op' = OpRec("constructFail", NoCoord, 0)
  /\ UNCHANGED <<derived, inst, alloc, host, err, thr, snap, origin>>

\* Mutant of CopyConstruct: a deep copy, the elements duplicated into an
\* allocation of the new object's own.
CopyConstruct_Deep(i, a) ==
  /\ NewSlot(i)
  /\ Live(a)
  /\ HasFresh
  /\ inst' = [inst EXCEPT ![i] = [inst[a] EXCEPT !.surface = FreshHandle]]
  /\ alloc' = [alloc EXCEPT
                 ![FreshHandle] = [alloc[inst[a].surface] EXCEPT !.refs = 1]]
  /\ origin' = [origin EXCEPT ![i] = origin[a]]
  /\ op' = OpRec("copy", NoCoord, 0)
  /\ UNCHANGED <<derived, host, err, thr, snap>>

\* CudaSurface3DBase(const CudaSurface3DBase &other)
CopyConstruct(i, a) ==
  /\ NewSlot(i)
  /\ Live(a)
  /\ inst' = [inst EXCEPT ![i] = inst[a]]
  /\ alloc' = SurfaceRetain(alloc, inst[a].surface)
  /\ origin' = [origin EXCEPT ![i] = origin[a]]
  /\ op' = OpRec("copy", NoCoord, 0)
  /\ UNCHANGED <<derived, host, err, thr, snap>>

\* emptyCopy(): the body passes five arguments,
\* (width_, height_, block_dim_, stream_, boundary_mode_), to the constructor
\* (size_t, size_t, size_t, dim3, cudaStream_t, cudaSurfaceBoundaryMode).
\* dim3 does not convert to size_t, cudaStream_t not to dim3, the enum not
\* to cudaStream_t: the member cannot be instantiated, so a call on a yields
\* no object and no allocation.  Only the history records the call.
EmptyCopy(a) ==
  /\ Live(a)
  /\ op' = OpRec("emptyCopy", NoCoord, 0)
  /\ UNCHANGED <<derived, inst, alloc, host, err, thr, snap, origin>>

\* Mutant of AssignInstance: the handle is overwritten and the allocation it
\* referenced is never released.
AssignInstance_KeepOld(b, a) ==
  /\ Live(b)
  /\ Live(a)
  /\ IF b = a
       THEN UNCHANGED <<inst, alloc, origin>>
       ELSE /\ inst' = [inst EXCEPT ![b] = inst[a]]
            /\ alloc' = SurfaceRetain(alloc, inst[a].surface)
            /\ origin' = [origin EXCEPT ![b] = origin[a]]
  /\ op' = OpRec(IF b = a THEN "selfAssign" ELSE "assign", NoCoord, 0)
  /\ UNCHANGED <<derived, host, err, thr, snap>>

\* Mutant of AssignInstance: no test for self-assignment, and the old handle
\* is dropped before the new one is taken.
AssignInstance_NoSelfTest(b, a) ==
  /\ Live(b)
  /\ Live(a)
  /\ inst' = [inst EXCEPT ![b] = inst[a]]
  /\ alloc' = SurfaceRetain(SurfaceRelease(alloc, inst[b].surface),
                            inst[a].surface)
  /\ origin' = [origin EXCEPT ![b] = origin[a]]
  /\ op' = OpRec(IF b = a THEN "selfAssign" ELSE "assign", NoCoord, 0)
  /\ UNCHANGED <<derived, host, err, thr, snap>>

\* operator=(const CudaSurface3DBase &other)
AssignInstance(b, a) ==
  /\ Live(b)
  /\ Live(a)
  /\ IF b = a
       THEN UNCHANGED <<inst, alloc, origin>>
       ELSE /\ inst' = [inst EXCEPT ![b] = inst[a]]
            /\ alloc' = SurfaceAssign(alloc, inst[b].surface, inst[a].surface)
            /\ origin' = [origin EXCEPT ![b] = origin[a]]
  /\ op' = OpRec(IF b = a THEN "selfAssign" ELSE "assign", NoCoord, 0)
  /\ UNCHANGED <<derived, host, err, thr, snap>>

\* ~CudaSurface3DBase()
Destroy(i) ==
  /\ Live(i)
  /\ inst' = [inst EXCEPT ![i] = DeadInst]
  /\ alloc' = SurfaceRelease(alloc, inst[i].surface)
  /\ origin' = [origin EXCEPT ![i] = 0]
  /\ op' = OpRec("destroy", NoCoord, 0)
  /\ UNCHANGED <<derived, host, err, thr, snap>>

\* get_boundary_mode()
get_boundary_mode(i) == inst[i].boundary_mode

\* Mutant of set_boundary_mode: the mode is kept with the shared surface, so
\* every instance holding the handle takes it.
set_boundary_mode_OnSurface(i, m) ==
  /\ Live(i)
  /\ inst' = [j \in Inst |->
                IF Live(j) /\ inst[j].surface = inst[i].surface
                  THEN [inst[j] EXCEPT !.boundary_mode = m]
                  ELSE inst[j]]
  /\ op' = OpRec("setMode", NoCoord, 0)
  /\ UNCHANGED <<derived, alloc, host, err, thr, snap, origin>>

\* set_boundary_mode(boundary_mode)
set_boundary_mode(i, m) ==
  /\ Live(i)
  /\ inst' = [inst EXCEPT ![i].boundary_mode = m]
  /\ op' = OpRec("setMode", NoCoord, 0)
  /\ UNCHANGED <<derived, alloc, host, err, thr, snap, origin>>

\* ------------------------------------------------ CUDA surface intrinsics
\* Mutant of ByteX: the element index is passed as the byte coordinate.
ByteX_Unscaled(x) == x

\* The x argument the accessors pass: sizeof(T) * x is computed in size_t and
\* narrowed to the intrinsic's int parameter, i.e. (SizeofT * x) mod 2^32 read
\* as a signed 32-bit value.
ByteX(x) ==
  LET q == x % XWrap
  IN IF q >= XWrap \div 2 THEN SizeofT * (q - XWrap) ELSE SizeofT * q

\* Byte coordinate bx and rows y, z lie inside the array.
InRange(al, bx, y, z) ==
  /\ bx >= 0 /\ bx < SizeofT * al.w
  /\ y >= 0 /\ y < al.h
  /\ z >= 0 /\ z < al.d

ClampTo(v, n) == IF v < 0 THEN 0 ELSE IF v >= n THEN n - 1 ELSE v

\* The elements an access touches: the addressed one when in range, the
\* nearest one under cudaBoundaryModeClamp, none otherwise.
SurfCells(al, bx, y, z, mode) ==
  IF InRange(al, bx, y, z)
    THEN {<<bx \div SizeofT, y, z>>}
    ELSE IF mode = cudaBoundaryModeClamp /\ al.w * al.h * al.d > 0
      THEN {<<ClampTo(bx, SizeofT * al.w) \div SizeofT,
              ClampTo(y, al.h), ClampTo(z, al.d)>>}
      ELSE {}

\* An out-of-range access under cudaBoundaryModeTrap makes the kernel fail.
SurfTraps(al, bx, y, z, mode) ==
  ~InRange(al, bx, y, z) /\ mode = cudaBoundaryModeTrap

SurfWrite(al, v, bx, y, z, mode) ==
  [al EXCEPT !.data =
     [c \in DOMAIN al.data |->
        IF c \in SurfCells(al, bx, y, z, mode) THEN v ELSE al.data[c]]]

\* The values a read may return: the element (any value if it was never
\* written), or zero for an out-of-range read that does not clamp.
SurfRead(al, bx, y, z, mode) ==
  IF SurfCells(al, bx, y, z, mode) = {}
    THEN {0}
    ELSE UNION {IF al.data[c] = Uninit THEN Values ELSE {al.data[c]} :
                  c \in SurfCells(al, bx, y, z, mode)}

surf3Dwrite(al, v, bx, y, z, mode) == SurfWrite(al, v, bx, y, z, mode)
surf3Dread(al, bx, y, z, mode) == SurfRead(al, bx, y, z, mode)
surf2DLayeredwrite(al, v, bx, y, layer, mode) ==
  SurfWrite(al, v, bx, y, layer, mode)
surf2DLayeredread(al, bx, y, layer, mode) == SurfRead(al, bx, y, layer, mode)

\* ------------------------------------------------------ device accessors
\* Mutant of SetOn: y and z are passed to the intrinsic in the other order.
SetOn_SwapYZ(al, o, x, y, z, v) ==
  IF IS_LAYERED
    THEN surf2DLayeredwrite(al, v, ByteX(x), z, y, o.boundary_mode)
    ELSE surf3Dwrite(al, v, ByteX(x), z, y, o.boundary_mode)

\* Derived::set(x, y, z, v) on the object o: the allocation after the write.
SetOn(al, o, x, y, z, v) ==
  IF IS_LAYERED
    THEN surf2DLayeredwrite(al, v, ByteX(x), y, z, o.boundary_mode)
    ELSE surf3Dwrite(al, v, ByteX(x), y, z, o.boundary_mode)

\* Derived::get(x, y, z) on the object o: the values it may return.
GetOn(al, o, x, y, z) ==
  IF IS_LAYERED
    THEN surf2DLayeredread(al, ByteX(x), y, z, o.boundary_mode)
    ELSE surf3Dread(al, ByteX(x), y, z, o.boundary_mode)

TrapsOn(al, o, x, y, z) == SurfTraps(al, ByteX(x), y, z, o.boundary_mode)

\* A one-thread kernel calling arr.set(x, y, z, v) on instance i.
Set(i, x, y, z, v) ==
  /\ ~err
  /\ Live(i)
  /\ LET hd == inst[i].surface
     IN IF TrapsOn(alloc[hd], inst[i], x, y, z)
          THEN /\ err' = TRUE
               /\ UNCHANGED alloc
          ELSE /\ alloc' = [alloc EXCEPT
                              ![hd] = SetOn(alloc[hd], inst[i], x, y, z, v)]
               /\ UNCHANGED err
  /\ op' = OpRec("set", <<x, y, z>>, v)
  /\ UNCHANGED <<derived, inst, host, thr, snap, origin>>

\* A one-thread kernel calling arr.get(x, y, z) on instance i; the value
\* returned is recorded in op.
Get(i, x, y, z) ==
  /\ ~err
  /\ Live(i)
  /\ LET hd == inst[i].surface
     IN IF TrapsOn(alloc[hd], inst[i], x, y, z)
          THEN /\ err' = TRUE
               /\ op' = OpRec("get", <<x, y, z>>, Uninit)
          ELSE /\ \E r \in GetOn(alloc[hd], inst[i], x, y, z) :
                    op' = OpRec("get", <<x, y, z>>, r)
               /\ UNCHANGED err
  /\ UNCHANGED <<derived, inst, alloc, host, thr, snap, origin>>

\* --------------------------------------------------------- host transfer
\* Position of element c in the linear order of a w x h x d array, from 0.
LinIndex(w, h, c) == c[1] + w * (c[2] + h * c[3])

\* sizeof(Scalar) * width_ * height_ * depth_
ByteCount(o) == SizeofT * o.width * o.height * o.depth

\* cudaMemcpyToArray(dev_array, 0, 0, host_array, count, HostToDevice):
\* the first count bytes of the buffer fill the array in linear order.
cudaMemcpyToArray(al, buf, count) ==
  [al EXCEPT !.data =
     [c \in DOMAIN al.data |->
        IF LinIndex(al.w, al.h, c) < count \div SizeofT
          THEN buf[LinIndex(al.w, al.h, c) + 1]
          ELSE al.data[c]]]

\* cudaMemcpyFromArray(host_array, dev_array, 0, 0, count, DeviceToHost)
cudaMemcpyFromArray(buf, al, count) ==
  [k \in 1..Len(buf) |->
     IF k <= count \div SizeofT
       THEN al.data[CHOOSE c \in DOMAIN al.data :
                      LinIndex(al.w, al.h, c) = k - 1]
       ELSE buf[k]]

\* The caller's buffer holds exactly width*height*depth elements.
HostFits(i) ==
  Len(host) = inst[i].width * inst[i].height * inst[i].depth

\* A host buffer of n elements whose neighbours differ.
PatternBuf(n, s) == [k \in 1..n |-> (k - 1 + s) % (MaxVal + 1)]

\* The caller prepares a host buffer of n elements.
HostFill(n, s) ==
  /\ host' = PatternBuf(n, s)
  /\ op' = OpRec("hostFill", NoCoord, 0)
  /\ UNCHANGED <<derived, inst, alloc, err, thr, snap, origin>>

\* operator=(const Scalar *host_array)
AssignHost(i) ==
  /\ ~err
  /\ Live(i)
  /\ HostFits(i)
  /\ alloc' = [alloc EXCEPT
                 ![inst[i].surface] =
                   cudaMemcpyToArray(@, host, ByteCount(inst[i]))]
  /\ op' = HostOp("assignHost", i, IF op.name = "copyTo" THEN op.i ELSE 0)
  /\ UNCHANGED <<derived, inst, host, err, thr, snap, origin>>

\* Mutant of copyTo: the byte count leaves out the depth.
copyTo_NoDepth(i) ==
  /\ ~err
  /\ Live(i)
  /\ HostFits(i)
  /\ host' = cudaMemcpyFromArray(host, alloc[inst[i].surface],
                                 SizeofT * inst[i].width * inst[i].height)
  /\ op' = HostOp("copyTo", i, 0)
  /\ UNCHANGED <<derived, inst, alloc, err, thr, snap, origin>>

\* copyTo(Scalar *host_array)
copyTo(i) ==
  /\ ~err
  /\ Live(i)
  /\ HostFits(i)
  /\ host' = cudaMemcpyFromArray(host, alloc[inst[i].surface],
                                 ByteCount(inst[i]))
  /\ op' = HostOp("copyTo", i, 0)
  /\ UNCHANGED <<derived, inst, alloc, err, thr, snap, origin>>

\* ----------------------------------------------------------- kernel
\* One device thread of a launched kernel executes arr.set(x, y, z, v) on the
\* by-value copy of the array it was handed; the write of one element is a
\* single store.
ThreadSet(t) ==
  /\ ~err
  /\ ~thr[t].done
  /\ LET o == inst[thr[t].arr]
         c == thr[t].c
     IN IF TrapsOn(alloc[o.surface], o, c[1], c[2], c[3])
          THEN /\ err' = TRUE
               /\ UNCHANGED alloc
          ELSE /\ alloc' = [alloc EXCEPT
                              ![o.surface] =
                                SetOn(@, o, c[1], c[2], c[3], thr[t].v)]
               /\ UNCHANGED err
  /\ thr' = [thr EXCEPT ![t].done = TRUE]
  /\ op' = OpRec("threadSet", thr[t].c, thr[t].v)
  /\ UNCHANGED <<derived, inst, host, snap, origin>>

\* ------------------------------------------------------- specifications
LeafTypes == {"CudaSurface2DArray", "CudaSurface3D"}

Init ==
  /\ derived \in LeafTypes
  /\ inst = [i \in Inst |-> DeadInst]
  /\ alloc = [h \in Handles |-> NoAlloc]
  /\ host = <<>>
  /\ err = FALSE
  /\ thr = <<>>
  /\ snap = <<>>
  /\ origin = [i \in Inst |-> 0]
  /\ op = NoOp

Next ==
  \/ \E i \in Inst, s \in CtorArgs, bm \in BoundaryModes :
       \/ Construct(i, s[1], s[2], s[3], s[4], s[5], bm)
       \/ ConstructFail(i, s[1], s[2], s[3], s[4], s[5], bm)
  \/ \E i \in Inst, a \in Inst :
       \/ CopyConstruct(i, a)
       \/ AssignInstance(i, a)
  \/ \E a \in Inst : EmptyCopy(a)
  \/ \E i \in Inst : Destroy(i)
  \/ \E i \in Inst, m \in BoundaryModes : set_boundary_mode(i, m)

Spec == Init /\ [][Next]_vars

\* Element i of an in-extent coordinate set of instance i.
InExtent(o, c) ==
  /\ c[1] >= 0 /\ c[1] < o.width
  /\ c[2] >= 0 /\ c[2] < o.height
  /\ c[3] >= 0 /\ c[3] < o.depth

Probe == Cells(MaxCells, MaxCells, MaxCells)

\* Sharing: arrays built with the constructor's default block shape, stream
\* and boundary mode are copied, assigned and written.
NextShare ==
  \/ \E i \in Inst, s \in Shapes :
       Construct(i, s[1], s[2], s[3], 1, 0, cudaBoundaryModeZero)
  \/ \E i \in Inst, a \in Inst :
       \/ CopyConstruct(i, a)
       \/ AssignInstance(i, a)
  \/ \E i \in Inst, c \in Probe, v \in Values :
       /\ InExtent(inst[i], c)
       /\ Set(i, c[1], c[2], c[3], v)
  \/ \E n \in 1..MaxCells, s \in Values : HostFill(n, s)
  \/ \E i \in Inst : AssignHost(i)

SpecShare == Init /\ [][NextShare]_vars

\* Host round trips: every slot that can hold an array holds one of the
\* same extents, each with its own allocation.
InitCopy ==
  /\ derived \in LeafTypes
  /\ \E s \in Shapes :
       /\ inst = [i \in Inst |->
                    IF i \in Handles
                      THEN NewInst(s[1], s[2], s[3], 1, 0,
                                   cudaBoundaryModeZero, i)
                      ELSE DeadInst]
       /\ alloc = [h \in Handles |->
                     IF h \in Inst
                       THEN NewAlloc(s[1], s[2], s[3], IS_LAYERED)
                       ELSE NoAlloc]
  /\ host = <<>>
  /\ err = FALSE
  /\ thr = <<>>
  /\ snap = <<>>
  /\ origin = [i \in Inst |-> IF i \in Handles THEN i ELSE 0]
  /\ op = NoOp

NextCopy ==
  \/ \E n \in 1..MaxCells, s \in Values : HostFill(n, s)
  \/ \E i \in Inst : AssignHost(i)
  \/ \E i \in Inst : copyTo(i)
  \/ \E i \in Inst, a \in Inst : AssignInstance(i, a)

SpecCopy == InitCopy /\ [][NextCopy]_vars

\* Element access: one array whose elements were filled from a host buffer.
InitAccess ==
  /\ derived \in LeafTypes
  /\ \E s \in Shapes, bm \in BoundaryModes, p \in Values :
       /\ inst = [i \in Inst |->
                    IF i = 1
                      THEN NewInst(s[1], s[2], s[3], 1, 0, bm, 1)
                      ELSE DeadInst]
       /\ alloc = [h \in Handles |->
                     IF h = 1
                       THEN cudaMemcpyToArray(
                              NewAlloc(s[1], s[2], s[3], IS_LAYERED),
                              PatternBuf(s[1] * s[2] * s[3], p),
                              SizeofT * s[1] * s[2] * s[3])
                       ELSE NoAlloc]
  /\ host = <<>>
  /\ err = FALSE
  /\ thr = <<>>
  /\ snap = <<>>
  /\ origin = [i \in Inst |-> IF i = 1 THEN 1 ELSE 0]
  /\ op = NoOp

\* Coordinates the kernels call the accessors with: every in-extent one,
\* and those with one coordinate outside: one step beyond either end, or the
\* first x whose byte offset no longer fits the intrinsic's int parameter.
ProbeCoords(o) ==
  LET inX == 0..(o.width - 1)
      inY == 0..(o.height - 1)
      inZ == 0..(o.depth - 1)
  IN (inX \X inY \X inZ)
       \cup ({-1, o.width, XWrap} \X inY \X inZ)
       \cup (inX \X {-1, o.height} \X inZ)
       \cup (inX \X inY \X {-1, o.depth})

NextAccess ==
  \/ \E i \in Inst : \E c \in ProbeCoords(inst[i]), v \in Values :
       Set(i, c[1], c[2], c[3], v)
  \/ \E i \in Inst : \E c \in ProbeCoords(inst[i]) :
       Get(i, c[1], c[2], c[3])

SpecAccess == InitAccess /\ [][NextAccess]_vars

\* A kernel launch: every slot holds a shallow copy of one array, thread t
\* was handed the copy in slot ((t - 1) mod NInst) + 1 and writes one
\* in-extent element.
Threads == 1..NThreads

InitKernel ==
  /\ derived \in LeafTypes
  /\ \E s \in Shapes, d0 \in {Uninit, 0} :
       /\ inst = [i \in Inst |->
                    NewInst(s[1], s[2], s[3], 1, 0, cudaBoundaryModeZero, 1)]
       /\ alloc = [h \in Handles |->
                     IF h = 1
                       THEN [NewAlloc(s[1], s[2], s[3], IS_LAYERED)
                               EXCEPT !.refs = NInst,
                                      !.data = [c \in Cells(s[1], s[2], s[3])
                                                  |-> d0]]
                       ELSE NoAlloc]
       /\ snap = [c \in Cells(s[1], s[2], s[3]) |-> d0]
       /\ thr \in [Threads ->
                     [arr : Inst, c : Cells(s[1], s[2], s[3]), v : Values,
                      done : {FALSE}]]
  /\ \A t \in Threads : thr[t].arr = ((t - 1) % NInst) + 1
  /\ host = <<>>
  /\ err = FALSE
  /\ origin = [i \in Inst |-> 1]
  /\ op = NoOp

NextKernel == \E t \in Threads : ThreadSet(t)

SpecKernel == InitKernel /\ [][NextKernel]_vars

\* ================================================================ claims
\* The instances that hold handle h.
Holders(h) == {i \in Inst : Live(i) /\ inst[i].surface = h}

\* The configuration fields of an instance (everything but its handle).
Config(o) ==
  <<o.width, o.height, o.depth, o.block_dim, o.stream, o.boundary_mode>>

\* ---------------------------------------------------------------- C2
\* C2: emptyCopy() on a returns an instance, one that did not exist before,
\* whose width, height, depth, block shape, stream and boundary mode equal
\* a's and whose allocation is new, with a's allocation left as it was.
C2_EmptyCopySameConfigNewAllocation ==
  [][\A a \in Inst :
       EmptyCopy(a) =>
         \E i \in Inst :
           /\ ~Live(i)
           /\ Live(i)'
           /\ Config(inst'[i]) = Config(inst[a])
           /\ inst'[i].surface # inst[a].surface
           /\ alloc[inst'[i].surface].state # "live"
           /\ alloc'[inst'[i].surface].state = "live"
           /\ alloc'[inst[a].surface] = alloc[inst[a].surface]]_vars

\* ---------------------------------------------------------------- C4
\* C4: an allocation is live exactly while some live instance holds its
\* handle, its owner count is the number of those instances, and it is freed
\* once and only once, when nobody holds it any more.
C4_LiveIffReferenced ==
  \A h \in Handles :
    /\ alloc[h].state = "live" <=> Holders(h) # {}
    /\ alloc[h].refs = Cardinality(Holders(h))
    /\ alloc[h].state = "freed" <=> alloc[h].frees = 1
    /\ alloc[h].frees <= 1

\* An assignment has just released one allocation while another one is
\* shared by two instances.
C4_Witness ==
  /\ op.name = "assign"
  /\ \E h \in Handles : alloc[h].state = "freed"
  /\ \E h \in Handles : alloc[h].state = "live" /\ alloc[h].refs = 2

\* ---------------------------------------------------------------- C5
\* C5: copy-construction and instance assignment give the destination the
\* source's boundary mode; set_boundary_mode(m) on one instance makes its
\* get_boundary_mode() return m and changes nothing else: no other instance
\* (sharing the handle or not), no other field, no allocation.
C5_BoundaryModePerInstance ==
  [][/\ \A i \in Inst, m \in BoundaryModes :
          set_boundary_mode(i, m) =>
            /\ get_boundary_mode(i)' = m
            /\ inst' = [inst EXCEPT ![i].boundary_mode = m]
            /\ \A j \in Inst \ {i} : inst'[j] = inst[j]
            /\ alloc' = alloc
     /\ \A i \in Inst, a \in Inst :
          CopyConstruct(i, a) =>
            get_boundary_mode(i)' = inst[a].boundary_mode
     /\ \A b \in Inst, a \in Inst :
          AssignInstance(b, a) =>
            get_boundary_mode(b)' = inst[a].boundary_mode]_vars

\* set_boundary_mode has just run and two instances that share a handle have
\* different boundary modes.
C5_Witness ==
  /\ op.name = "setMode"
  /\ \E i \in Inst, j \in Inst :
       /\ Live(i) /\ Live(j)
       /\ inst[i].surface = inst[j].surface
       /\ inst[i].boundary_mode # inst[j].boundary_mode

\* ---------------------------------------------------------------- C8
\* C8: a constructor call that succeeds yields an instance of the given
\* extents holding a new allocation of exactly those extents with one owner;
\* one that fails changes no instance and no allocation; and at all times
\* every live instance holds the handle of a live allocation.
C8_ConstructAllocatesOrFails ==
  [][/\ \A i \in Inst, s \in CtorArgs, bm \in BoundaryModes :
          /\ Construct(i, s[1], s[2], s[3], s[4], s[5], bm) =>
               LET h == inst'[i].surface
               IN /\ inst'[i].live
                  /\ Config(inst'[i]) = <<s[1], s[2], s[3], s[4], s[5], bm>>
                  /\ alloc[h].state = "none"
                  /\ alloc'[h].state = "live"
                  /\ alloc'[h].refs = 1
                  /\ <<alloc'[h].w, alloc'[h].h, alloc'[h].d>>
                       = <<s[1], s[2], s[3]>>
                  /\ DOMAIN alloc'[h].data = Cells(s[1], s[2], s[3])
          /\ ConstructFail(i, s[1], s[2], s[3], s[4], s[5], bm) =>
               /\ inst' = inst
               /\ alloc' = alloc
     /\ \A i \in Inst :
          inst'[i].live => alloc'[inst'[i].surface].state = "live"]_vars

\* A constructor call has just failed while an earlier one had succeeded.
C8_Witness ==
  /\ op.name = "constructFail"
  /\ \E i \in Inst : Live(i)
  /\ \E i \in Inst : ~Live(i)

\* --------------------------------------------------------------- C10
\* C10: a = a changes no field of a, not its handle, and neither the owner
\* count nor the liveness of the allocation.
C10_SelfAssignNoOp ==
  [][\A a \in Inst :
       AssignInstance(a, a) =>
         /\ inst' = inst
         /\ alloc' = alloc
         /\ alloc'[inst[a].surface].state = "live"]_vars

\* A self-assignment has just run on the only holder of an allocation.
C10_Witness ==
  /\ op.name = "selfAssign"
  /\ \E a \in Inst : Live(a) /\ alloc[inst[a].surface].refs = 1

\* ---------------------------------------------------------------- C1
\* The allocations made so far.
AllocsMade == {h \in Handles : alloc[h].state # "none"}

\* The elements of instance i, read without the accessors.
Elems(i) == alloc[inst[i].surface].data

\* C1: copy-construction and instance assignment leave source and
\* destination holding one handle and make no allocation; instances that are
\* shallow copies of one array keep holding one handle; an in-extent element
\* written through one of them by set, and every element written through one
\* of them by host assignment, is read back with that value through each.
C1_ShallowCopiesShare ==
  [][/\ \A i \in Inst, a \in Inst :
          CopyConstruct(i, a) =>
            /\ inst'[i].surface = inst[a].surface
            /\ inst'[a].surface = inst[a].surface
            /\ AllocsMade' = AllocsMade
     /\ \A b \in Inst, a \in Inst :
          AssignInstance(b, a) =>
            /\ inst'[b].surface = inst[a].surface
            /\ inst'[a].surface = inst[a].surface
            /\ AllocsMade' = AllocsMade
     /\ \A a \in Inst, b \in Inst :
          (inst'[a].live /\ inst'[b].live /\ origin'[a] = origin'[b]) =>
            inst'[a].surface = inst'[b].surface
     /\ \A b \in Inst :
          (Live(b) /\ InExtent(inst[b], op'.c)
             /\ Set(b, op'.c[1], op'.c[2], op'.c[3], op'.v)) =>
            \A a \in Inst :
              (Live(a) /\ origin[a] = origin[b]) =>
                GetOn(alloc'[inst'[a].surface], inst'[a],
                      op'.c[1], op'.c[2], op'.c[3]) = {op'.v}
     /\ \A b \in Inst :
          AssignHost(b) =>
            \A a \in Inst :
              (Live(a) /\ origin[a] = origin[b]) =>
                \A c \in Cells(inst[a].width, inst[a].height, inst[a].depth) :
                  GetOn(alloc'[inst'[a].surface], inst'[a], c[1], c[2], c[3])
                    = {host[LinIndex(inst[a].width, inst[a].height, c) + 1]}
    ]_vars

\* An element has just been written by set while two instances hold the
\* handle of the written array.
C1_Witness ==
  /\ op.name = "set"
  /\ \E a \in Inst, b \in Inst :
       /\ a # b /\ Live(a) /\ Live(b)
       /\ inst[a].surface = inst[b].surface
       /\ op.c \in DOMAIN Elems(a)
       /\ Elems(a)[op.c] = op.v

\* ---------------------------------------------------------------- C3
\* C3: copyTo changes no instance and no allocation; and when b = hostBuf
\* directly follows a.copyTo(hostBuf) for a and b of equal extents, every
\* element of b then equals the element of a at the same coordinate, while
\* a's elements, fields and handle are what they were.
C3_HostRoundTrip ==
  [][/\ \A a \in Inst : copyTo(a) => (inst' = inst /\ alloc' = alloc)
     /\ \A b \in Inst :
          (op.name = "copyTo" /\ AssignHost(b)
             /\ <<inst[op.i].width, inst[op.i].height, inst[op.i].depth>>
                  = <<inst[b].width, inst[b].height, inst[b].depth>>) =>
            /\ \A c \in Cells(inst[b].width, inst[b].height, inst[b].depth) :
                 alloc'[inst'[b].surface].data[c] = Elems(op.i)[c]
            /\ alloc'[inst'[op.i].surface].data = Elems(op.i)
            /\ inst'[op.i] = inst[op.i]
    ]_vars

\* b = hostBuf has just followed a.copyTo(hostBuf), a and b have allocations
\* of their own, and the elements carried over are written ones that differ
\* from one another.
C3_Witness ==
  /\ op.name = "assignHost"
  /\ op.v # 0
  /\ inst[op.i].surface # inst[op.v].surface
  /\ Elems(op.i) = Elems(op.v)
  /\ \A c \in DOMAIN Elems(op.v) : Elems(op.v)[c] # Uninit
  /\ \E c1 \in DOMAIN Elems(op.v), c2 \in DOMAIN Elems(op.v) :
       Elems(op.v)[c1] # Elems(op.v)[c2]

\* ---------------------------------------------------------------- C6
\* C6: under cudaBoundaryModeZero, get at a coordinate outside the extents
\* returns zero and raises no error, and set at such a coordinate changes no
\* element.
C6_OutOfExtentZeroMode ==
  [][\A i \in Inst :
       (Live(i) /\ inst[i].boundary_mode = cudaBoundaryModeZero) =>
         \A c \in ProbeCoords(inst[i]) :
           ~InExtent(inst[i], c) =>
             /\ Get(i, c[1], c[2], c[3]) => (op'.v = 0 /\ ~err')
             /\ \A v \in Values :
                  Set(i, c[1], c[2], c[3], v) => (alloc' = alloc /\ ~err')
    ]_vars

\* ---------------------------------------------------------------- C7
\* C7: set(x, y, z, v) at an in-extent coordinate makes get(x, y, z) return
\* v, also as the next operation, and leaves every other in-extent element
\* as it was.
C7_SetThenGet ==
  [][/\ \A i \in Inst :
          Live(i) =>
            \A c \in Cells(inst[i].width, inst[i].height, inst[i].depth),
               v \in Values :
              Set(i, c[1], c[2], c[3], v) =>
                /\ GetOn(alloc'[inst'[i].surface], inst'[i],
                         c[1], c[2], c[3]) = {v}
                /\ \A c2 \in Cells(inst[i].width, inst[i].height,
                                   inst[i].depth) \ {c} :
                     alloc'[inst'[i].surface].data[c2] = Elems(i)[c2]
                /\ ~err'
     /\ \A i \in Inst :
          (op.name = "set" /\ Live(i) /\ InExtent(inst[i], op.c)
             /\ Get(i, op.c[1], op.c[2], op.c[3])) =>
            op'.v = op.v
    ]_vars

\* An in-extent element has just been set to a value that another element
\* of the array does not have.
C7_Witness ==
  /\ op.name = "set"
  /\ InExtent(inst[1], op.c)
  /\ Elems(1)[op.c] = op.v
  /\ \E c2 \in DOMAIN Elems(1) : c2 # op.c /\ Elems(1)[c2] # op.v

\* ---------------------------------------------------------------- C9
\* The threads that have written to element c.
Writers(c) == {t \in Threads : thr[t].done /\ thr[t].c = c}

\* C9: at every point of every interleaving, an element no thread has
\* written holds its value from before the launch, and an element written by
\* one or more threads holds the value one of them wrote; no kernel fails.
C9_ConcurrentSets ==
  /\ ~err
  /\ \A c \in DOMAIN snap :
       IF Writers(c) = {}
         THEN Elems(1)[c] = snap[c]
         ELSE Elems(1)[c] \in {thr[t].v : t \in Writers(c)}

\* All threads are done, two of them wrote different values to one element
\* through different shallow copies.
C9_Witness ==
  /\ \A t \in Threads : thr[t].done
  /\ \E t1 \in Threads, t2 \in Threads :
       /\ thr[t1].c = thr[t2].c
       /\ thr[t1].v # thr[t2].v
       /\ thr[t1].arr # thr[t2].arr

====
